---- MODULE Spec2Model ----
(***************************************************************************)
(* Model of the NETCONF agent (server/src/agent.c): the start-up sequence  *)
(* of main, its poll/receive/dispatch loop, process_message, the signal    *)
(* handler and the detached notification thread.                           *)
(*                                                                         *)
(* The main thread is a program counter pc.  A signal may be delivered     *)
(* between any two steps of the process; the notification threads run      *)
(* concurrently with the main thread.  Calls into libnetconf and into the  *)
(* backend channel (comm_close ...) are external: their results are chosen *)
(* nondeterministically among the results their interface allows.          *)
(***************************************************************************)
EXTENDS Integers, Sequences, FiniteSets, TLC

(* ------------------------------ bounds --------------------------------- *)

\* number of <rpc> messages the client sends on the session
MaxRequests == 3

\* number of signals delivered to the process
MaxSignals == 2

(* --------------------------- value domains ----------------------------- *)

NULL == "NULL"

\* a NULL nc_rpc pointer
NULL_RPC == [id |-> 0, op |-> NULL, payload |-> "-"]

\* nc_rpc_get_op(rpc): the three operations the agent handles itself, and
\* one representative of every other operation (the default: branch)
Ops == {"NC_OP_CLOSESESSION", "NC_OP_KILLSESSION",
        "NC_OP_CREATESUBSCRIPTION", "NC_OP_GETCONFIG"}

\* what the request carries, as far as process_message looks at it:
\*   kill-session       : "corrupt" (no operation content or not named
\*                        kill-session), "no-sid" (first child is not
\*                        session-id), "sid" (well formed)
\*   create-subscription: "valid" / "invalid" for ncntf_subscription_check
Payloads(op) ==
    CASE op = "NC_OP_KILLSESSION"        -> {"corrupt", "no-sid", "sid"}
      [] op = "NC_OP_CREATESUBSCRIPTION" -> {"valid", "invalid"}
      [] OTHER                           -> {"-"}

\* NC_MSG_TYPE values nc_session_recv_rpc can return; NC_MSG_HELLO stands
\* for every type the switch sends to default:
MsgTypes == {"NC_MSG_RPC", "NC_MSG_NONE", "NC_MSG_UNKNOWN", "NC_MSG_HELLO"}

SessionStatus == {"WORKING", "CLOSING"}

\* the signals the handler is installed for (sigaction cannot install a
\* handler for SIGKILL, so the handler never runs for it)
Signals == {"SIGINT", "SIGQUIT", "SIGABRT", "SIGTERM"}

PollEvents == {"POLLIN", "POLLHUP", "POLLERR"}

\* results of poll(): ret < 0 with errno other than EINTR, ret < 0 with
\* EINTR, ret = 0, ret > 0 with a non-empty set of returned events
PollResults ==
    {[ret |-> "error", revents |-> {}], [ret |-> "eintr", revents |-> {}],
     [ret |-> "timeout", revents |-> {}]}
    \cup {[ret |-> "event", revents |-> ev] : ev \in (SUBSET PollEvents) \ {{}}}

\* ret and fds.revents when no poll() result is waiting to be acted on
NoPoll == [ret |-> NULL, revents |-> {}]

VARIABLES
    pc,          \* position of the main thread
    done,        \* volatile int done
    cap,         \* session has the notification:1.0 capability
    status,      \* nc_session_get_status(netconf_con)
    rpc,         \* main's rpc: NULL or the request received last
    rpc_type,    \* main's rpc_type, from nc_session_recv_rpc until the loop
                 \* test or cleanup, after which it is not read again
    reply,       \* process_message's reply
    ntf_active,  \* the session's "a subscription is active" mark
    thr,         \* notification thread started for request k
    nrecv,       \* number of requests received so far
    nsig,        \* number of signals delivered so far
    replies,     \* replies sent on the session, in order
    sentInCall,  \* replies sent by the running process_message call
    loopEntered, \* main reached the while loop
    sessionFreed,\* cleanup released the session
    exitStatus,  \* exit status of the process, NULL while it runs
    exitCause,   \* which exit was taken
    pollres,     \* main's ret and fds.revents, from poll() until the loop
                 \* test or cleanup, after which they are not read again
    replyLive,   \* replies created by the running process_message call
                 \* and not released
    ntf_config,  \* the ntf_thread_config (with the duplicated rpc) made
                 \* for request k
    freedRpcs,   \* requests released by main with nc_rpc_free
    killed,      \* requests whose session-id was passed to comm_kill_session
    closeCalls   \* calls of comm_close

vars == <<pc, done, cap, status, rpc, rpc_type, reply, ntf_active, thr,
          nrecv, nsig, replies, sentInCall, loopEntered, sessionFreed,
          exitStatus, exitCause, pollres, replyLive, ntf_config, freedRpcs,
          killed, closeCalls>>

\* the process has not exited
alive == pc # "exited"

Init ==
    /\ pc = "nc_init"
    /\ done = 0
    /\ cap = FALSE
    /\ status = "WORKING"
    /\ rpc = NULL_RPC
    /\ rpc_type = NULL
    /\ reply = NULL
    /\ ntf_active = FALSE
    /\ thr = [k \in 1..MaxRequests |-> "none"]
    /\ nrecv = 0
    /\ nsig = 0
    /\ replies = <<>>
    /\ sentInCall = 0
    /\ loopEntered = FALSE
    /\ sessionFreed = FALSE
    /\ exitStatus = NULL
    /\ exitCause = NULL
    /\ pollres = NoPoll
    /\ replyLive = 0
    /\ ntf_config = [k \in 1..MaxRequests |-> "none"]
    /\ freedRpcs = 0
    /\ killed = <<>>
    /\ closeCalls = 0

(* ------------------------------ start-up ------------------------------- *)

\* return EXIT_FAILURE from main before the loop
StartupFailure ==
    /\ pc' = "exited"
    /\ exitStatus' = "EXIT_FAILURE"
    /\ exitCause' = "startup"

StartupStep(at, next) ==
    /\ pc = at
    /\ \/ /\ pc' = next
          /\ UNCHANGED <<exitStatus, exitCause>>
       \/ StartupFailure
    /\ UNCHANGED <<done, cap, status, rpc, rpc_type, reply, ntf_active, thr,
                   nrecv, nsig, replies, sentInCall, loopEntered,
                   sessionFreed>>
    /\ UNCHANGED <<pollres, replyLive, ntf_config, freedRpcs, killed, closeCalls>>

\* nc_init(NC_INIT_AGENT) < 0
NcInit == StartupStep("nc_init", "comm_connect")

\* comm_connect() == NULL
CommConnect == StartupStep("comm_connect", "get_server_capabilities")

\* get_server_capabilities(con) == NULL
GetServerCapabilities == StartupStep("get_server_capabilities", "nc_session_accept")

\* nc_session_accept(capabilities): the negotiated capabilities may or may
\* not include notification:1.0
SessionAccept ==
    /\ pc = "nc_session_accept"
    /\ \/ /\ pc' = "comm_session_info"
          /\ cap' \in BOOLEAN
          /\ UNCHANGED <<exitStatus, exitCause>>
       \/ /\ StartupFailure
          /\ UNCHANGED cap
    /\ UNCHANGED <<done, status, rpc, rpc_type, reply, ntf_active, thr,
                   nrecv, nsig, replies, sentInCall, loopEntered,
                   sessionFreed>>
    /\ UNCHANGED <<pollres, replyLive, ntf_config, freedRpcs, killed, closeCalls>>

\* comm_session_info(con, netconf_con)
CommSessionInfo == StartupStep("comm_session_info", "while")

(* ------------------------------ main loop ------------------------------ *)

\* while (!done)
WhileCheck ==
    /\ pc = "while"
    /\ pollres' = NoPoll
    /\ rpc_type' = NULL
    /\ pc' = IF done = 0 THEN "poll" ELSE "cleanup"
    /\ loopEntered' = TRUE
    /\ UNCHANGED <<done, cap, status, rpc, reply, ntf_active, thr,
                   nrecv, nsig, replies, sentInCall, sessionFreed,
                   exitStatus, exitCause>>
    /\ UNCHANGED <<replyLive, ntf_config, freedRpcs, killed, closeCalls>>

\* PollBranch testing the data indicator before hang-up and error
PollBranch_dataFirst(res) ==
    IF res.ret = "error" THEN "cleanup"
    ELSE IF res.ret = "timeout" THEN "while"
    ELSE IF res.ret = "event" THEN
        IF "POLLIN" \in res.revents THEN "recv"
        ELSE IF "POLLHUP" \in res.revents THEN "cleanup"
        ELSE IF "POLLERR" \in res.revents THEN "cleanup"
        ELSE "while"
    ELSE "while"

\* the branch taken on the result of poll()
PollBranch(res) ==
    IF res.ret = "error" THEN "cleanup"
    ELSE IF res.ret = "timeout" THEN "while"
    ELSE IF res.ret = "event" THEN
        IF "POLLHUP" \in res.revents THEN "cleanup"
        ELSE IF "POLLERR" \in res.revents THEN "cleanup"
        ELSE IF "POLLIN" \in res.revents THEN "recv"
        ELSE "while"
    ELSE "while"

\* the result of poll() makes main call comm_close(con)
PollCloses(res) == res.ret = "event" /\ "POLLHUP" \in res.revents

\* ret = poll(&fds, 1, timeout) and the branches on ret and fds.revents
Poll ==
    /\ pc = "poll"
    /\ \E res \in PollResults :
         /\ pollres' = res
         /\ pc' = PollBranch(res)
         /\ closeCalls' = IF PollCloses(res) THEN closeCalls + 1 ELSE closeCalls
    /\ UNCHANGED <<done, cap, status, rpc, rpc_type, reply, ntf_active, thr,
                   nrecv, nsig, replies, sentInCall, loopEntered,
                   sessionFreed, exitStatus, exitCause>>
    /\ UNCHANGED <<replyLive, ntf_config, freedRpcs, killed>>

\* AfterRecv with the request dropped: main waits again without dispatching
AfterRecv_drop(t, st) ==
    IF t = "NC_MSG_UNKNOWN" /\ st # "WORKING" THEN "cleanup"
    ELSE "while"

\* AfterRecv leaving the loop on every NC_MSG_UNKNOWN, whatever the status
AfterRecv_strict(t, st) ==
    IF t = "NC_MSG_RPC" THEN "process_message"
    ELSE IF t = "NC_MSG_UNKNOWN" THEN "cleanup"
    ELSE "while"

\* AfterRecv waiting again at once, without the loop test, when no request
\* was received
AfterRecv_waitAgain(t, st) ==
    IF t = "NC_MSG_RPC" THEN "process_message"
    ELSE IF t = "NC_MSG_UNKNOWN" /\ st # "WORKING" THEN "cleanup"
    ELSE "poll"

\* where main goes after nc_session_recv_rpc returned type t and left the
\* session in status st
AfterRecv(t, st) ==
    IF t = "NC_MSG_RPC" THEN "process_message"
    ELSE IF t = "NC_MSG_UNKNOWN" /\ st # "WORKING" THEN "cleanup"
    ELSE "while"

\* rpc_type = nc_session_recv_rpc(netconf_con, -1, &rpc) and the switch on
\* rpc_type.  A receive that yields a request leaves the status as it is; a
\* receive that yields none may leave the session no longer working.
RecvRpc ==
    /\ pc = "recv"
    /\ \E t \in MsgTypes :
        /\ rpc_type' = t
        /\ IF t = "NC_MSG_RPC"
           THEN /\ nrecv < MaxRequests
                /\ \E op \in Ops : \E pl \in Payloads(op) :
                      rpc' = [id |-> nrecv + 1, op |-> op, payload |-> pl]
                /\ nrecv' = nrecv + 1
                /\ sentInCall' = 0
                /\ replyLive' = 0
                /\ UNCHANGED status
           ELSE /\ status' \in (IF status = "WORKING" THEN SessionStatus
                                                     ELSE {status})
                /\ UNCHANGED <<rpc, nrecv, sentInCall, replyLive>>
        /\ pc' = AfterRecv(t, status')
    /\ UNCHANGED <<done, cap, reply, ntf_active, thr, nsig, replies,
                   loopEntered, sessionFreed, exitStatus, exitCause>>
    /\ UNCHANGED <<pollres, ntf_config, freedRpcs, killed, closeCalls>>

(* --------------------------- process_message --------------------------- *)

\* reply of the NC_OP_CLOSESESSION branch for a result of comm_close
CloseSessionReply(closed) == IF closed THEN "ok" ELSE "operation-failed"

\* PM_CloseSession setting done only when comm_close succeeded
PM_CloseSession_okOnly ==
    /\ pc = "process_message"
    /\ rpc # NULL_RPC
    /\ rpc.op = "NC_OP_CLOSESESSION"
    /\ \E closed \in BOOLEAN :
          /\ reply' = CloseSessionReply(closed)
          /\ done' = IF closed THEN 1 ELSE done
    /\ closeCalls' = closeCalls + 1
    /\ replyLive' = 1
    /\ pc' = "send_reply"
    /\ UNCHANGED <<cap, status, rpc, rpc_type, ntf_active, thr, nrecv, nsig,
                   replies, sentInCall, loopEntered, sessionFreed,
                   exitStatus, exitCause>>
    /\ UNCHANGED <<pollres, ntf_config, freedRpcs, killed>>

\* case NC_OP_CLOSESESSION
PM_CloseSession ==
    /\ pc = "process_message"
    /\ rpc # NULL_RPC
    /\ rpc.op = "NC_OP_CLOSESESSION"
    /\ \E closed \in BOOLEAN : reply' = CloseSessionReply(closed)
    /\ done' = 1
    /\ closeCalls' = closeCalls + 1
    /\ replyLive' = 1
    /\ pc' = "send_reply"
    /\ UNCHANGED <<cap, status, rpc, rpc_type, ntf_active, thr, nrecv, nsig,
                   replies, sentInCall, loopEntered, sessionFreed,
                   exitStatus, exitCause>>
    /\ UNCHANGED <<pollres, ntf_config, freedRpcs, killed>>

\* KillSessionReply without the test for the session-id element
KillSessionReply_noSidCheck(payload) ==
    IF payload = "corrupt" THEN "operation-failed"
    ELSE "comm_kill_session"

\* reply of the NC_OP_KILLSESSION branch
KillSessionReply(payload) ==
    IF payload = "corrupt" THEN "operation-failed"
    ELSE IF payload = "no-sid" THEN "missing-element:session-id"
    ELSE "comm_kill_session"

\* the NC_OP_KILLSESSION branch reaches comm_kill_session(conn, sid)
KillSessionCalls(payload) == KillSessionReply(payload) = "comm_kill_session"

\* case NC_OP_KILLSESSION
PM_KillSession ==
    /\ pc = "process_message"
    /\ rpc # NULL_RPC
    /\ rpc.op = "NC_OP_KILLSESSION"
    /\ reply' = KillSessionReply(rpc.payload)
    /\ killed' = IF KillSessionCalls(rpc.payload) THEN Append(killed, rpc.id)
                                                  ELSE killed
    /\ replyLive' = 1
    /\ pc' = "send_reply"
    /\ UNCHANGED <<done, cap, status, rpc, rpc_type, ntf_active, thr, nrecv,
                   nsig, replies, sentInCall, loopEntered, sessionFreed,
                   exitStatus, exitCause>>
    /\ UNCHANGED <<pollres, ntf_config, freedRpcs, closeCalls>>

\* nc_session_notif_allowed(session)
NotifAllowed == ~ntf_active

\* SubscriptionReply validating the request before asking whether a
\* subscription is allowed
SubscriptionReply_checkFirst(hasCap, allowed, valid, mallocOk, createOk) ==
    IF ~hasCap THEN "operation-not-supported"
    ELSE IF ~valid THEN "subscription-check-error"
    ELSE IF ~allowed THEN "operation-failed:protocol:subscription-active"
    ELSE IF ~mallocOk THEN "operation-failed:malloc"
    ELSE IF ~createOk THEN "operation-failed:thread"
    ELSE "ok"

\* reply of the NC_OP_CREATESUBSCRIPTION branch
SubscriptionReply(hasCap, allowed, valid, mallocOk, createOk) ==
    IF ~hasCap THEN "operation-not-supported"
    ELSE IF ~allowed THEN "operation-failed:protocol:subscription-active"
    ELSE IF ~valid THEN "subscription-check-error"
    ELSE IF ~mallocOk THEN "operation-failed:malloc"
    ELSE IF ~createOk THEN "operation-failed:thread"
    ELSE "ok"

\* the NC_OP_CREATESUBSCRIPTION branch reaches pthread_create and it succeeds
SubscriptionSpawns(hasCap, allowed, valid, mallocOk, createOk) ==
    hasCap /\ allowed /\ valid /\ mallocOk /\ createOk

\* the NC_OP_CREATESUBSCRIPTION branch allocates ntf_config and duplicates
\* the rpc into it
SubscriptionAllocates(hasCap, allowed, valid, mallocOk) ==
    hasCap /\ allowed /\ valid /\ mallocOk

\* replies created and not released when the NC_OP_CREATESUBSCRIPTION branch
\* gets to send_reply: the reply of ncntf_subscription_check is released
\* before it is replaced when pthread_create fails, and is not when malloc
\* fails
SubscriptionLiveReplies(hasCap, allowed, valid, mallocOk, createOk) ==
    IF hasCap /\ allowed /\ valid /\ ~mallocOk THEN 2 ELSE 1

\* case NC_OP_CREATESUBSCRIPTION, up to and including pthread_create
PM_CreateSubscription ==
    /\ pc = "process_message"
    /\ rpc # NULL_RPC
    /\ rpc.op = "NC_OP_CREATESUBSCRIPTION"
    /\ \E mallocOk \in BOOLEAN, createOk \in BOOLEAN :
         LET valid == rpc.payload = "valid" IN
         /\ reply' = SubscriptionReply(cap, NotifAllowed, valid, mallocOk, createOk)
         /\ replyLive' = SubscriptionLiveReplies(cap, NotifAllowed, valid,
                                                 mallocOk, createOk)
         /\ ntf_config' = IF SubscriptionAllocates(cap, NotifAllowed, valid, mallocOk)
                          THEN [ntf_config EXCEPT ![rpc.id] = "allocated"]
                          ELSE ntf_config
         /\ IF SubscriptionSpawns(cap, NotifAllowed, valid, mallocOk, createOk)
            THEN /\ thr' = [thr EXCEPT ![rpc.id] = "created"]
                 /\ pc' = "pthread_detach"
            ELSE /\ UNCHANGED thr
                 /\ pc' = "send_reply"
    /\ UNCHANGED <<done, cap, status, rpc, rpc_type, ntf_active, nrecv, nsig,
                   replies, sentInCall, loopEntered, sessionFreed,
                   exitStatus, exitCause>>
    /\ UNCHANGED <<pollres, freedRpcs, killed, closeCalls>>

\* PthreadDetach followed by return instead of break: no reply is sent
PthreadDetach_return ==
    /\ pc = "pthread_detach"
    /\ pc' = "rpc_free"
    /\ reply' = NULL
    /\ UNCHANGED <<done, cap, status, rpc, rpc_type, ntf_active, thr,
                   nrecv, nsig, replies, sentInCall, loopEntered,
                   sessionFreed, exitStatus, exitCause>>
    /\ UNCHANGED <<pollres, replyLive, ntf_config, freedRpcs, killed, closeCalls>>

\* pthread_join in place of pthread_detach: main waits for the thread to end
PthreadDetach_join ==
    /\ pc = "pthread_detach"
    /\ thr[rpc.id] = "finished"
    /\ pc' = "send_reply"
    /\ UNCHANGED <<done, cap, status, rpc, rpc_type, reply, ntf_active, thr,
                   nrecv, nsig, replies, sentInCall, loopEntered,
                   sessionFreed, exitStatus, exitCause>>
    /\ UNCHANGED <<pollres, replyLive, ntf_config, freedRpcs, killed, closeCalls>>

\* pthread_detach(thread); break;
PthreadDetach ==
    /\ pc = "pthread_detach"
    /\ pc' = "send_reply"
    /\ UNCHANGED <<done, cap, status, rpc, rpc_type, reply, ntf_active, thr,
                   nrecv, nsig, replies, sentInCall, loopEntered,
                   sessionFreed, exitStatus, exitCause>>
    /\ UNCHANGED <<pollres, replyLive, ntf_config, freedRpcs, killed, closeCalls>>

\* default: reply = comm_operation(conn, rpc)
PM_Default ==
    /\ pc = "process_message"
    /\ rpc # NULL_RPC
    /\ rpc.op \notin {"NC_OP_CLOSESESSION", "NC_OP_KILLSESSION",
                      "NC_OP_CREATESUBSCRIPTION"}
    /\ reply' = "comm_operation"
    /\ replyLive' = 1
    /\ pc' = "send_reply"
    /\ UNCHANGED <<done, cap, status, rpc, rpc_type, ntf_active, thr, nrecv,
                   nsig, replies, sentInCall, loopEntered, sessionFreed,
                   exitStatus, exitCause>>
    /\ UNCHANGED <<pollres, ntf_config, freedRpcs, killed, closeCalls>>

\* send_reply: nc_session_send_reply; nc_reply_free; return EXIT_SUCCESS
SendReply ==
    /\ pc = "send_reply"
    /\ replies' = Append(replies, [id |-> rpc.id, op |-> rpc.op, type |-> reply])
    /\ sentInCall' = sentInCall + 1
    /\ reply' = NULL
    /\ replyLive' = replyLive - 1
    /\ pc' = "rpc_free"
    /\ UNCHANGED <<done, cap, status, rpc, rpc_type, ntf_active, thr, nrecv,
                   nsig, loopEntered, sessionFreed, exitStatus, exitCause>>
    /\ UNCHANGED <<pollres, ntf_config, freedRpcs, killed, closeCalls>>

\* back in main: nc_rpc_free(rpc); rpc = NULL;
RpcFree ==
    /\ pc = "rpc_free"
    /\ freedRpcs' = freedRpcs + 1
    /\ rpc' = NULL_RPC
    /\ pc' = "while"
    /\ UNCHANGED <<done, cap, status, rpc_type, reply, ntf_active, thr, nrecv,
                   nsig, replies, sentInCall, loopEntered, sessionFreed,
                   exitStatus, exitCause>>
    /\ UNCHANGED <<pollres, replyLive, ntf_config, killed, closeCalls>>

\* cleanup: nc_rpc_free(rpc); nc_session_free(netconf_con);
Cleanup ==
    /\ pc = "cleanup"
    /\ pollres' = NoPoll
    /\ rpc_type' = NULL
    /\ freedRpcs' = IF rpc # NULL_RPC THEN freedRpcs + 1 ELSE freedRpcs
    /\ sessionFreed' = TRUE
    /\ pc' = "nc_close"
    /\ UNCHANGED <<done, cap, status, rpc, reply, ntf_active, thr,
                   nrecv, nsig, replies, sentInCall, loopEntered, exitStatus,
                   exitCause>>
    /\ UNCHANGED <<replyLive, ntf_config, killed, closeCalls>>

\* MainReturn reporting a session that stopped working through the exit status
MainReturn_escalate ==
    /\ pc = "nc_close"
    /\ pc' = "exited"
    /\ exitStatus' = IF status = "WORKING" THEN "EXIT_SUCCESS" ELSE "EXIT_FAILURE"
    /\ exitCause' = "cleanup"
    /\ UNCHANGED <<done, cap, status, rpc, rpc_type, reply, ntf_active, thr,
                   nrecv, nsig, replies, sentInCall, loopEntered, sessionFreed>>
    /\ UNCHANGED <<pollres, replyLive, ntf_config, freedRpcs, killed, closeCalls>>

\* nc_close(0); return (EXIT_SUCCESS);
MainReturn ==
    /\ pc = "nc_close"
    /\ pc' = "exited"
    /\ exitStatus' = "EXIT_SUCCESS"
    /\ exitCause' = "cleanup"
    /\ UNCHANGED <<done, cap, status, rpc, rpc_type, reply, ntf_active, thr,
                   nrecv, nsig, replies, sentInCall, loopEntered, sessionFreed>>
    /\ UNCHANGED <<pollres, replyLive, ntf_config, freedRpcs, killed, closeCalls>>

(* ---------------------------- signal handler --------------------------- *)

\* SignalOutcome without the second-attempt exit
SignalOutcome_patient(sig, d) ==
    IF sig \in {"SIGINT", "SIGTERM", "SIGQUIT", "SIGABRT", "SIGKILL"}
    THEN "set-done"
    ELSE "exit"

\* what signal_handler does for a signal it is installed for
SignalOutcome(sig, d) ==
    IF sig \in {"SIGINT", "SIGTERM", "SIGQUIT", "SIGABRT", "SIGKILL"}
    THEN IF d = 0 THEN "set-done" ELSE "exit"
    ELSE "exit"

\* a signal is delivered to the running process
SignalHandler ==
    /\ alive
    /\ nsig < MaxSignals
    /\ nsig' = nsig + 1
    /\ \E sig \in Signals :
         IF SignalOutcome(sig, done) = "set-done"
         THEN /\ done' = 1
              /\ UNCHANGED <<pc, exitStatus, exitCause>>
         ELSE /\ pc' = "exited"
              /\ exitStatus' = "EXIT_FAILURE"
              /\ exitCause' = "signal"
              /\ UNCHANGED done
    /\ UNCHANGED <<cap, status, rpc, rpc_type, reply, ntf_active, thr, nrecv,
                   replies, sentInCall, loopEntered, sessionFreed>>
    /\ UNCHANGED <<pollres, replyLive, ntf_config, freedRpcs, killed, closeCalls>>

(* -------------------------- notification thread ------------------------ *)

\* notification_thread starts running: ncntf_dispatch_send is entered.  It
\* marks the session as having an active subscription; if the session is
\* already marked it returns at once.
NotificationStart(k) ==
    /\ alive
    /\ thr[k] = "created"
    /\ IF ntf_active
       THEN /\ thr' = [thr EXCEPT ![k] = "returned"]
            /\ UNCHANGED ntf_active
       ELSE /\ thr' = [thr EXCEPT ![k] = "sending"]
            /\ ntf_active' = TRUE
    /\ UNCHANGED <<pc, done, cap, status, rpc, rpc_type, reply, nrecv, nsig,
                   replies, sentInCall, loopEntered, sessionFreed,
                   exitStatus, exitCause>>
    /\ UNCHANGED <<pollres, replyLive, ntf_config, freedRpcs, killed, closeCalls>>

\* the notification stream ends: ncntf_dispatch_send returns
NotificationEnd(k) ==
    /\ alive
    /\ thr[k] \in {"sending", "streaming"}
    /\ thr' = [thr EXCEPT ![k] = "returned"]
    /\ ntf_active' = FALSE
    /\ UNCHANGED <<pc, done, cap, status, rpc, rpc_type, reply, nrecv, nsig,
                   replies, sentInCall, loopEntered, sessionFreed,
                   exitStatus, exitCause>>
    /\ UNCHANGED <<pollres, replyLive, ntf_config, freedRpcs, killed, closeCalls>>

\* ncntf_dispatch_send writes an event of the stream to the session
NotificationSend(k) ==
    /\ alive
    /\ thr[k] = "sending"
    /\ thr' = [thr EXCEPT ![k] = "streaming"]
    /\ UNCHANGED <<pc, done, cap, status, rpc, rpc_type, reply, ntf_active,
                   nrecv, nsig, replies, sentInCall, loopEntered,
                   sessionFreed, exitStatus, exitCause>>
    /\ UNCHANGED <<pollres, replyLive, ntf_config, freedRpcs, killed, closeCalls>>

\* ncntf_dispatch_send reads or writes a session that nc_session_free has
\* released: the behaviour is undefined; the thread may go on as if nothing
\* had happened (the other actions) or the process is killed.
NotificationCrash(k) ==
    /\ alive
    /\ sessionFreed
    /\ thr[k] \in {"created", "sending", "streaming"}
    /\ pc' = "exited"
    /\ exitStatus' = "SIGSEGV"
    /\ exitCause' = "crash"
    /\ UNCHANGED <<done, cap, status, rpc, rpc_type, reply, ntf_active, thr,
                   nrecv, nsig, replies, sentInCall, loopEntered, sessionFreed>>
    /\ UNCHANGED <<pollres, replyLive, ntf_config, freedRpcs, killed, closeCalls>>

\* what a release does to an object: only an allocated object can be released
Release(obj) == IF obj = "allocated" THEN "freed" ELSE "double-free"

\* NotificationRelease returning without releasing config and its rpc
NotificationRelease_leak(k) ==
    /\ alive
    /\ thr[k] = "returned"
    /\ thr' = [thr EXCEPT ![k] = "finished"]
    /\ UNCHANGED <<pc, done, cap, status, rpc, rpc_type, reply, ntf_active,
                   nrecv, nsig, replies, sentInCall, loopEntered,
                   sessionFreed, exitStatus, exitCause>>
    /\ UNCHANGED <<pollres, replyLive, ntf_config, freedRpcs, killed, closeCalls>>

\* nc_rpc_free(config->subscribe_rpc); free(config); return (NULL);
NotificationRelease(k) ==
    /\ alive
    /\ thr[k] = "returned"
    /\ thr' = [thr EXCEPT ![k] = "finished"]
    /\ ntf_config' = [ntf_config EXCEPT ![k] = Release(ntf_config[k])]
    /\ UNCHANGED <<pc, done, cap, status, rpc, rpc_type, reply, ntf_active,
                   nrecv, nsig, replies, sentInCall, loopEntered,
                   sessionFreed, exitStatus, exitCause>>
    /\ UNCHANGED <<pollres, replyLive, freedRpcs, killed, closeCalls>>

(* ---------------------------- specification ---------------------------- *)

MainStep ==
    \/ NcInit
    \/ CommConnect
    \/ GetServerCapabilities
    \/ SessionAccept
    \/ CommSessionInfo
    \/ WhileCheck
    \/ Poll
    \/ RecvRpc
    \/ PM_CloseSession
    \/ PM_KillSession
    \/ PM_CreateSubscription
    \/ PthreadDetach
    \/ PM_Default
    \/ SendReply
    \/ RpcFree
    \/ Cleanup
    \/ MainReturn

ThreadStep ==
    \E k \in 1..MaxRequests :
        \/ NotificationStart(k)
        \/ NotificationEnd(k)
        \/ NotificationSend(k)
        \/ NotificationCrash(k)
        \/ NotificationRelease(k)

Next ==
    \/ MainStep
    \/ SignalHandler
    \/ ThreadStep

Spec == Init /\ [][Next]_vars

TypeOK ==
    /\ done \in {0, 1}
    /\ nrecv \in 0..MaxRequests
    /\ nsig \in 0..MaxSignals
    /\ sentInCall \in 0..1
    /\ Len(replies) <= nrecv

\* the main thread is scheduled fairly; the notification stream may run for
\* ever and signals need not arrive
FairSpec == Spec /\ WF_vars(MainStep)

(* ------------------------------- helpers ------------------------------- *)

\* main is inside a process_message call
InProcessMessage == pc \in {"process_message", "pthread_detach", "send_reply"}

\* the notification threads that were started and whose stream has not ended
ActiveTasks ==
    {k \in 1..MaxRequests : thr[k] \in {"created", "sending", "streaming"}}

\* the reply to a close-session request has been sent
CloseReplied ==
    \E k \in 1..Len(replies) : replies[k].op = "NC_OP_CLOSESESSION"

\* the replies process_message can send for an operation
ReplyTypes(op) ==
    CASE op = "NC_OP_CLOSESESSION" -> {"ok", "operation-failed"}
      [] op = "NC_OP_KILLSESSION" ->
            {"operation-failed", "missing-element:session-id", "comm_kill_session"}
      [] op = "NC_OP_CREATESUBSCRIPTION" ->
            {"operation-not-supported",
             "operation-failed:protocol:subscription-active",
             "subscription-check-error", "operation-failed:malloc",
             "operation-failed:thread", "ok"}
      [] OTHER -> {"comm_operation"}

(* -------------------------------- claims ------------------------------- *)

\* C1: a process_message call on a non-null request has sent exactly one
\* reply when it returns: none is sent twice and, back in main, one was sent.
C1_ExactlyOneReply ==
    /\ sentInCall <= 1
    /\ InProcessMessage => sentInCall = 0
    /\ pc = "rpc_free" => sentInCall = 1

C1_Witness ==
    /\ pc = "rpc_free"
    /\ sentInCall = 1
    /\ replies[Len(replies)].type = "operation-failed:thread"

\* C2: at most one notification task is active on the session in every
\* reachable state.
C2_AtMostOneTask == Cardinality(ActiveTasks) <= 1

\* C3: once the reply to a close-session request has been sent the shutdown
\* flag is set, whatever comm_close returned, and main goes from there to
\* cleanup without polling, receiving or dispatching again.
C3_CloseSessionStops ==
    [][/\ CloseReplied' => done' = 1
       /\ CloseReplied => /\ nrecv' = nrecv
                          /\ replies' = replies
                          /\ pc' \in {"rpc_free", "while", "cleanup", "nc_close",
                                     "exited"}]_vars

C3_Witness ==
    /\ CloseReplied
    /\ replies[Len(replies)].type = "operation-failed"
    /\ exitCause = "cleanup"

\* C4: requests are dispatched one at a time in arrival order: the k-th reply
\* answers the k-th request with a reply of that operation, request k+1 is
\* received only after reply k was sent, a subscribe is answered ok exactly
\* when its thread was started, and the session is released only when every
\* received request has been answered.
C4_InOrder ==
    /\ Len(replies) <= nrecv
    /\ nrecv - Len(replies) <= 1
    /\ pc \in {"while", "poll", "recv", "rpc_free", "cleanup"} => Len(replies) = nrecv
    /\ \A k \in 1..Len(replies) :
          /\ replies[k].id = k
          /\ replies[k].type \in ReplyTypes(replies[k].op)
          /\ replies[k].op = "NC_OP_CREATESUBSCRIPTION" =>
                (replies[k].type = "ok" <=> thr[k] # "none")
    /\ sessionFreed => Len(replies) = nrecv

C4_Witness ==
    /\ sessionFreed
    /\ Len(replies) = 3
    /\ replies[1] = [id |-> 1, op |-> "NC_OP_CREATESUBSCRIPTION", type |-> "ok"]
    /\ replies[2] = [id |-> 2, op |-> "NC_OP_GETCONFIG", type |-> "comm_operation"]
    /\ replies[3].op = "NC_OP_CLOSESESSION"
    /\ thr[1] = "streaming"

\* C5: the first signal delivered sets the shutdown flag and does not end
\* the process.
C5_FirstSignalIsGraceful ==
    [][(nsig = 0 /\ nsig' = 1) => (done' = 1 /\ pc' # "exited")]_vars

\* C6: a signal delivered while the shutdown flag is set ends the process at
\* once with failure status: no reply is sent, no request is received and
\* cleanup does not run, then or later.
C6_SecondSignalAborts ==
    [][/\ (nsig' # nsig /\ done # 0) =>
            /\ pc' = "exited"
            /\ exitStatus' = "EXIT_FAILURE"
            /\ UNCHANGED <<replies, nrecv, sessionFreed>>
       /\ exitCause = "signal" =>
            UNCHANGED <<replies, nrecv, sessionFreed, exitStatus>>]_vars

C6_Witness ==
    /\ exitCause = "signal"
    /\ nsig = 2
    /\ exitStatus = "EXIT_FAILURE"
    /\ ~sessionFreed

\* C7: inside process_message main never waits for a notification thread:
\* whatever the threads are doing, its next step can be taken.
C7_SubscribeDoesNotWait ==
    InProcessMessage /\ rpc.op = "NC_OP_CREATESUBSCRIPTION" =>
        ENABLED (PM_CreateSubscription \/ PthreadDetach \/ SendReply)

C7_Witness ==
    /\ Len(replies) >= 2
    /\ replies[1].op = "NC_OP_CREATESUBSCRIPTION"
    /\ replies[1].type = "ok"
    /\ 1 \in ActiveTasks
    /\ replies[2].type = "comm_operation"

\* C8: the exit status is failure exactly for a start-up failure or an exit
\* from the signal handler; a start-up failure happens before the loop and
\* before any request; every exit through cleanup is a success.
C8_ExitStatus ==
    /\ exitStatus = "EXIT_FAILURE" <=> exitCause \in {"startup", "signal"}
    /\ exitCause = "startup" => (~loopEntered /\ nrecv = 0 /\ ~sessionFreed)
    /\ sessionFreed => loopEntered
    /\ exitCause = "cleanup" =>
          (exitStatus = "EXIT_SUCCESS" /\ loopEntered /\ sessionFreed)
    /\ pc = "exited" <=> exitStatus # NULL

C8_Witness ==
    /\ exitCause = "cleanup"
    /\ exitStatus = "EXIT_SUCCESS"
    /\ status # "WORKING"
    /\ nrecv > 0

\* C9: a receive that yields no request and leaves the session working
\* sends nothing, dispatches nothing and takes main back to the loop test
\* with the state it had before the wait.
C9_NoRequestNoEffect ==
    [][(pc = "recv" /\ pc' \notin {"recv", "exited"}
          /\ rpc_type' # "NC_MSG_RPC" /\ status' = "WORKING") =>
        /\ pc' = "while"
        /\ UNCHANGED <<done, cap, status, rpc, reply, ntf_active, thr, nrecv,
                       nsig, replies, sentInCall, loopEntered, sessionFreed,
                       exitStatus, exitCause, pollres, replyLive, ntf_config,
                       freedRpcs, killed, closeCalls>>]_vars

C9_Witness ==
    /\ pc = "while"
    /\ rpc_type = "NC_MSG_UNKNOWN"
    /\ status = "WORKING"
    /\ done = 0
    /\ nrecv > 0

\* C10: every received request is eventually answered unless the process
\* ends, and a session that is no longer working is eventually left: main
\* reaches cleanup or the process ends.
C10_NoHang ==
    /\ (nrecv > Len(replies)) ~> (nrecv = Len(replies) \/ ~alive)
    /\ (status # "WORKING") ~> (pc \in {"cleanup", "exited"})

\* what main did since it last evaluated the loop test
LastEvent ==
    IF pollres.ret = NULL THEN "start"
    ELSE IF pollres.ret \in {"timeout", "eintr", "error"} THEN pollres.ret
    ELSE IF rpc_type = "NC_MSG_RPC" THEN "dispatch"
    ELSE "no-request"

\* C11: every reply created by a process_message call is released exactly
\* once before the call returns: one reply is live when send_reply is
\* reached, none when the call has returned, and none is released twice.
C11_RepliesReleased ==
    /\ replyLive >= 0
    /\ pc = "send_reply" => replyLive = 1
    /\ pc = "rpc_free" => replyLive = 0

\* C12: no ntf_thread_config with its duplicated request stays allocated
\* without a notification thread that owns it.
C12_NoLeakOnSpawnFailure ==
    \A k \in 1..MaxRequests :
        (ntf_config[k] = "allocated" /\ ~(InProcessMessage /\ rpc.id = k))
            => thr[k] # "none"

\* C13: create-subscription tests the capability, then whether a
\* subscription is allowed, then the request; a thread is started only when
\* all three pass, and the reply is ok exactly when a thread was started.
C13_SubscriptionChecks ==
    [][(pc = "process_message" /\ rpc.op = "NC_OP_CREATESUBSCRIPTION"
          /\ pc' \in {"send_reply", "pthread_detach"}) =>
        LET spawned == thr' # thr IN
        /\ ~cap => reply' = "operation-not-supported"
        /\ (cap /\ ntf_active) =>
              reply' = "operation-failed:protocol:subscription-active"
        /\ (cap /\ ~ntf_active /\ rpc.payload = "invalid") =>
              reply' = "subscription-check-error"
        /\ spawned => (cap /\ ~ntf_active /\ rpc.payload = "valid"
                       /\ thr'[rpc.id] = "created")
        /\ spawned <=> reply' = "ok"]_vars

C13_Witness ==
    /\ pc = "send_reply"
    /\ rpc.op = "NC_OP_CREATESUBSCRIPTION"
    /\ rpc.payload = "invalid"
    /\ ntf_active
    /\ reply = "operation-failed:protocol:subscription-active"

C15_FlagReadOnlyAtTimeout ==
    [][(pc = "while" /\ pc' \in {"poll", "cleanup"}) =>
            LastEvent \in {"start", "timeout"}]_vars

\* C15 (amended): main reads the shutdown flag before every wait: poll is
\* entered only from the loop test, and only when the test found the flag
\* clear; a test that finds the flag set goes to cleanup, whatever main did
\* before it (a timeout, an interrupted wait, a frame without a request or a
\* dispatched request).
C15_FlagReadBeforeEveryWait ==
    [][/\ (pc' = "poll" /\ pc # "poll") => (pc = "while" /\ done = 0)
       /\ (pc = "while" /\ pc' \notin {"while", "exited"}) =>
             pc' = (IF done = 0 THEN "poll" ELSE "cleanup")]_vars

C15_Witness ==
    /\ pc = "cleanup"
    /\ CloseReplied
    /\ nsig = 0
    /\ closeCalls = 1

\* C16: a receive that yields no request and leaves the session not working
\* takes main to cleanup.
C16_DegradedExits ==
    [][(pc = "recv" /\ pc' \notin {"recv", "exited"}
          /\ rpc_type' # "NC_MSG_RPC" /\ status' # "WORKING") =>
        pc' = "cleanup"]_vars

\* C17: when poll reports a hang-up main calls comm_close and goes to
\* cleanup; when it reports an error without a hang-up main goes to cleanup
\* without calling comm_close; in both cases nothing is received or
\* dispatched, also when data is reported as well.
C17_HangupAndError ==
    [][/\ (pc = "poll" /\ pc' \notin {"poll", "exited"}
             /\ pollres'.ret = "event") =>
            /\ "POLLHUP" \in pollres'.revents =>
                  (closeCalls' = closeCalls + 1 /\ pc' = "cleanup")
            /\ ("POLLERR" \in pollres'.revents
                  /\ "POLLHUP" \notin pollres'.revents) =>
                  (closeCalls' = closeCalls /\ pc' = "cleanup")
       /\ pc \in {"cleanup", "nc_close"} =>
            UNCHANGED <<nrecv, replies, closeCalls, killed>>]_vars

C17_Witness ==
    /\ pc = "cleanup"
    /\ pollres.revents = {"POLLHUP", "POLLIN"}
    /\ closeCalls = 1
    /\ nrecv = Len(replies)

\* C18: the ntf_thread_config of a started thread and the rpc duplicated
\* into it are released once, by that thread, after its stream ended; the
\* session is released by main's cleanup only; main has released every
\* request it received once its dispatch returned, and none twice.
C18_Ownership ==
    /\ \A k \in 1..MaxRequests :
          /\ ntf_config[k] \in {"none", "allocated", "freed"}
          /\ thr[k] = "finished" => ntf_config[k] = "freed"
          /\ ntf_config[k] = "freed" => thr[k] = "finished"
    /\ sessionFreed => pc \in {"nc_close", "exited"}
    /\ freedRpcs <= Len(replies)
    /\ pc \in {"while", "poll", "recv", "cleanup", "nc_close"} => freedRpcs = nrecv
    /\ (InProcessMessage \/ pc = "rpc_free") => freedRpcs = nrecv - 1

C18_Witness ==
    /\ thr[1] = "finished"
    /\ ntf_config[1] = "freed"
    /\ pc = "nc_close"
    /\ freedRpcs = 2

\* C19: main does not release the session while a notification thread that
\* was started has not finished with it.
C19_NoFreeWhileActive == (sessionFreed /\ alive) => ActiveTasks = {}

\* C20: a notification thread writes no event to the session before the
\* reply to its create-subscription request has been sent.
C20_ReplyBeforeEvents ==
    \A k \in 1..MaxRequests : thr[k] = "streaming" => Len(replies) >= k

====
